---------------------------- MODULE Spec2Model ----------------------------
(***************************************************************************)
(* prime-gen-load: a coordinator (instance-service) that keeps one record  *)
(* per sieve worker behind a std::sync::Mutex, and an orchestrator         *)
(* (pod-generator) that creates a namespace, the coordinator deployment,   *)
(* its headless service and `count` worker pods through the Kubernetes     *)
(* API.                                                                    *)
(*                                                                         *)
(* SpecCoordinator models instance-service/src/main.rs: the actix worker   *)
(* threads run the handlers register_sieve, save_result and health_check.  *)
(* A handler body holds no .await, so one thread runs one handler at a     *)
(* time; different threads run in parallel and meet at the Mutex.          *)
(*                                                                         *)
(* SpecOrchestrator models pod-generator/src/main.rs: one init_workload    *)
(* call at a time. Calls share no state; each works in a namespace of its  *)
(* own (a fresh random name), and the model follows the namespace of the   *)
(* call at hand.                                                           *)
(*                                                                         *)
(* SpecWorker models prime-sieve/src/main.rs: one worker process from its  *)
(* start to its exit. Workers share nothing and never talk to each other.  *)
(***************************************************************************)
EXTENDS Integers, Sequences, FiniteSets, TLC

(***************************************************************************)
(* Bounds of the model.                                                    *)
(***************************************************************************)
\* actix worker threads serving the coordinator (one per core in the code)
NumWorkers == 2
\* handler invocations started over the coordinator's life
MaxCalls == 3
\* largest `count` query parameter tried (and -1, 0)
MaxCount == 2

Threads == 1..NumWorkers
NoThread == 0

\* worker identifiers sent in the `id` field
Ids == {"w1", "w2"}

\* `primes` payloads: empty, one value, not ascending, the spec's scenario
PrimeLists == {<< >>, <<2>>, <<3, 2>>, <<2, 3, 5, 7>>}

VARIABLES
    \* ---- instance-service ----
    sieve_map,   \* AppData.sieve_map: set of entries [key, worker]
    mutex,       \* Mutex<AppData>: [holder, poisoned]
    redis,       \* the redis server's keys: id -> {} or {max_prime}
    pc,          \* per thread: where its handler stands
    req,         \* per thread: the request it serves (or served last)
    resp,        \* per thread: the outcome of that request
    prime_res,   \* per thread: save_result's local prime_res
    log,         \* tracing::warn! events of save_result (worker ids)
    hist,        \* per id: the last two calls that wrote the map (history)
    calls,       \* handler invocations started so far
    \* ---- pod-generator ----
    env,         \* environment variables set for the process
    linkerd,     \* value of LINKERD_INJECT
    opc,         \* where the init_workload call stands
    count,       \* the `count` query parameter of the call
    podn,        \* loop variable n of the pod loop
    inflight,    \* control-plane requests sent and not yet answered
    trace,       \* the call's control-plane events, in order
    cluster,     \* resources that exist in the call's namespace
    oresp,       \* outcome of the call
    \* ---- prime-sieve ----
    wpc,         \* where main stands
    sieve_id,    \* the uuid generated at the start ("" before)
    dns_n,       \* lookups made by query_until_dns_ready
    dns_result,  \* how query_until_dns_ready ended
    wtrace,      \* the requests sent to the coordinator and their outcomes
    res,         \* the primes computed by basic_sieve
    wexit        \* how the process ended

orchVars == <<env, linkerd, opc, count, podn, inflight, trace, cluster, oresp>>
workVars == <<wpc, sieve_id, dns_n, dns_result, wtrace, res, wexit>>
vars == <<sieve_map, mutex, redis, pc, req, resp, prime_res, log, hist, calls,
          env, linkerd, opc, count, podn, inflight, trace, cluster, oresp,
          wpc, sieve_id, dns_n, dns_result, wtrace, res, wexit>>

(***************************************************************************)
(* instance-service: data                                                  *)
(***************************************************************************)
\* Option<T>: None is the empty set, Some(x) is {x}
None == {}
Some(x) == {x}

\* struct Worker { id, results }
Worker(id, results) == [id |-> id, results |-> results]

\* a summary that takes the first element instead of the last
PrimeResultFirst(primes) ==
    [quantity |-> Len(primes), max_prime |-> primes[1]]

\* struct PrimeResult built by save_result: the LAST element and the length
PrimeResultOf(primes) ==
    [quantity |-> Len(primes), max_prime |-> primes[Len(primes)]]

\* HashMap::get: the values stored under key k
HashMapGet(m, k) == {e.worker : e \in {x \in m : x.key = k}}

\* an insert that leaves an occupied key as it is (entry().or_insert)
HashMapInsertIfAbsent(m, k, w) ==
    IF \E e \in m : e.key = k THEN m ELSE m \cup {[key |-> k, worker |-> w]}

\* an insert that adds the entry and keeps the one already under the key
HashMapInsertKeepOld(m, k, w) == m \cup {[key |-> k, worker |-> w]}

\* HashMap::insert: the entry under k is replaced
HashMapInsert(m, k, w) ==
    {e \in m : e.key # k} \cup {[key |-> k, worker |-> w]}

\* hmap.entry(k).and_modify(|wo| wo.results = Some(r)): no effect on a vacant entry
EntryAndModify(m, k, r) ==
    {IF e.key = k THEN [e EXCEPT !.worker.results = Some(r)] ELSE e : e \in m}

\* a lock attempt that never fails
TryLockAlways(m) == TRUE

\* a lock attempt that takes a free lock whether or not it is poisoned
TryLockIgnorePoison(m) == m.holder = NoThread

\* Mutex::try_lock succeeds iff nobody holds the lock and it is not poisoned
TryLock(m) == m.holder = NoThread /\ ~m.poisoned

\* the guard is dropped on return: the lock is released
Unlock(m) == [m EXCEPT !.holder = NoThread]

\* the guard is dropped while the thread panics: released and poisoned
UnlockPanicking(m) == [holder |-> NoThread, poisoned |-> TRUE]

NoReq == [op |-> "none", id |-> "", primes |-> << >>]

\* history: the last two writers of an id's record
Push(h, c) == IF Len(h) < 2 THEN Append(h, c) ELSE <<h[2], c>>

(***************************************************************************)
(* instance-service: handlers                                              *)
(***************************************************************************)
\* register_sieve up to store.try_lock().unwrap()
RegisterLock(t, id) ==
    /\ pc[t] = "idle"
    /\ calls < MaxCalls
    /\ calls' = calls + 1
    /\ req' = [req EXCEPT ![t] = [op |-> "register", id |-> id, primes |-> << >>]]
    /\ IF TryLock(mutex)
         THEN /\ mutex' = [mutex EXCEPT !.holder = t]
              /\ pc' = [pc EXCEPT ![t] = "reg_locked"]
              /\ resp' = [resp EXCEPT ![t] = "pending"]
         ELSE /\ mutex' = mutex
              /\ pc' = pc
              /\ resp' = [resp EXCEPT ![t] = "panic:try_lock"]
    /\ UNCHANGED <<sieve_map, redis, prime_res, log, hist, orchVars, workVars>>

\* hmap.insert(id, Worker { id, results: None })
RegisterInsert(t) ==
    /\ pc[t] = "reg_locked"
    /\ sieve_map' = HashMapInsert(sieve_map, req[t].id, Worker(req[t].id, None))
    /\ hist' = [hist EXCEPT ![req[t].id] = Push(@, [op |-> "register", primes |-> << >>])]
    /\ pc' = [pc EXCEPT ![t] = "reg_inserted"]
    /\ UNCHANGED <<mutex, redis, req, resp, prime_res, log, calls, orchVars, workVars>>

\* the sleep with the lock held, then HttpResponse::Created
RegisterReturn(t) ==
    /\ pc[t] = "reg_inserted"
    /\ mutex' = Unlock(mutex)
    /\ resp' = [resp EXCEPT ![t] = "201"]
    /\ pc' = [pc EXCEPT ![t] = "idle"]
    /\ UNCHANGED <<sieve_map, redis, req, prime_res, log, hist, calls, orchVars, workVars>>

\* save_result up to store.try_lock().unwrap()
SaveLock(t, id, primes) ==
    /\ pc[t] = "idle"
    /\ calls < MaxCalls
    /\ calls' = calls + 1
    /\ req' = [req EXCEPT ![t] = [op |-> "result", id |-> id, primes |-> primes]]
    /\ IF TryLock(mutex)
         THEN /\ mutex' = [mutex EXCEPT !.holder = t]
              /\ pc' = [pc EXCEPT ![t] = "res_locked"]
              /\ resp' = [resp EXCEPT ![t] = "pending"]
         ELSE /\ mutex' = mutex
              /\ pc' = pc
              /\ resp' = [resp EXCEPT ![t] = "panic:try_lock"]
    /\ UNCHANGED <<sieve_map, redis, prime_res, log, hist, orchVars, workVars>>

\* primes.get(primes.len() - 1).unwrap() on an empty vector: the overflow check
\* (debug) or the unwrap of None (release) panics, with the guard alive
SavePanicEmpty(t) ==
    /\ pc[t] = "res_locked"
    /\ Len(req[t].primes) = 0
    /\ mutex' = UnlockPanicking(mutex)
    /\ resp' = [resp EXCEPT ![t] = "panic:empty_primes"]
    /\ pc' = [pc EXCEPT ![t] = "idle"]
    /\ UNCHANGED <<sieve_map, redis, req, prime_res, log, hist, calls, orchVars, workVars>>

\* prime_res is built, then match hmap.get(&payload.id): update or warn and insert
SaveUpsert(t) ==
    /\ pc[t] = "res_locked"
    /\ Len(req[t].primes) > 0
    /\ LET id == req[t].id
           pr == PrimeResultOf(req[t].primes)
       IN  /\ prime_res' = [prime_res EXCEPT ![t] = Some(pr)]
           /\ IF HashMapGet(sieve_map, id) # None
                THEN /\ sieve_map' = EntryAndModify(sieve_map, id, pr)
                     /\ log' = log
                ELSE /\ sieve_map' = HashMapInsert(sieve_map, id, Worker(id, Some(pr)))
                     /\ log' = Append(log, id)
           /\ hist' = [hist EXCEPT ![id] = Push(@, [op |-> "result", primes |-> req[t].primes])]
    /\ pc' = [pc EXCEPT ![t] = "res_stored"]
    /\ UNCHANGED <<mutex, redis, req, resp, calls, orchVars, workVars>>

\* a mirror write whose failure is only logged: the handler goes on to its 200
SaveMirrorBestEffort(t, outcome) ==
    /\ pc[t] = "res_stored"
    /\ redis' = IF outcome = "ok"
                  THEN [redis EXCEPT ![req[t].id] = {r.max_prime : r \in prime_res[t]}]
                  ELSE redis
    /\ pc' = [pc EXCEPT ![t] = "res_mirrored"]
    /\ UNCHANGED <<mutex, resp, prime_res>>
    /\ UNCHANGED <<sieve_map, req, log, hist, calls, orchVars, workVars>>

\* redis.get_connection().unwrap() and con.set(id, max_prime).unwrap()
SaveMirror(t, outcome) ==
    /\ pc[t] = "res_stored"
    /\ IF outcome = "ok"
         THEN /\ redis' = [redis EXCEPT ![req[t].id] =
                              {r.max_prime : r \in prime_res[t]}]
              /\ pc' = [pc EXCEPT ![t] = "res_mirrored"]
              /\ UNCHANGED <<mutex, resp, prime_res>>
         ELSE /\ mutex' = UnlockPanicking(mutex)
              /\ resp' = [resp EXCEPT ![t] = "panic:redis"]
              /\ pc' = [pc EXCEPT ![t] = "idle"]
              /\ prime_res' = [prime_res EXCEPT ![t] = None]
              /\ redis' = redis
    /\ UNCHANGED <<sieve_map, req, log, hist, calls, orchVars, workVars>>

\* HttpResponse::Ok, the guard is dropped
SaveReturn(t) ==
    /\ pc[t] = "res_mirrored"
    /\ mutex' = Unlock(mutex)
    /\ resp' = [resp EXCEPT ![t] = "200"]
    /\ pc' = [pc EXCEPT ![t] = "idle"]
    /\ prime_res' = [prime_res EXCEPT ![t] = None]
    /\ UNCHANGED <<sieve_map, redis, req, log, hist, calls, orchVars, workVars>>

\* health_check: no lock, constant 200
HealthCheck(t) ==
    /\ pc[t] = "idle"
    /\ calls < MaxCalls
    /\ calls' = calls + 1
    /\ req' = [req EXCEPT ![t] = [op |-> "health", id |-> "", primes |-> << >>]]
    /\ resp' = [resp EXCEPT ![t] = "200"]
    /\ UNCHANGED <<sieve_map, mutex, redis, pc, prime_res, log, hist, orchVars, workVars>>

MirrorOutcomes == {"ok", "connection_error", "set_error"}

CoordNext ==
    \/ \E t \in Threads, id \in Ids : RegisterLock(t, id)
    \/ \E t \in Threads : RegisterInsert(t)
    \/ \E t \in Threads : RegisterReturn(t)
    \/ \E t \in Threads, id \in Ids, primes \in PrimeLists : SaveLock(t, id, primes)
    \/ \E t \in Threads : SavePanicEmpty(t)
    \/ \E t \in Threads : SaveUpsert(t)
    \/ \E t \in Threads, o \in MirrorOutcomes : SaveMirror(t, o)
    \/ \E t \in Threads : SaveReturn(t)
    \/ \E t \in Threads : HealthCheck(t)

\* the coordinator after main() built the store; the orchestrator and the
\* worker processes are not part of this specification and stay as they are
InitCoordinator ==
    /\ sieve_map = {}
    /\ mutex = [holder |-> NoThread, poisoned |-> FALSE]
    /\ redis = [i \in Ids |-> None]
    /\ pc = [t \in Threads |-> "idle"]
    /\ req = [t \in Threads |-> NoReq]
    /\ resp = [t \in Threads |-> "none"]
    /\ prime_res = [t \in Threads |-> None]
    /\ log = << >>
    /\ hist = [i \in Ids |-> << >>]
    /\ calls = 0
    /\ env = {}
    /\ linkerd = "unset"
    /\ opc = "idle"
    /\ count = 0
    /\ podn = 0
    /\ inflight = {}
    /\ trace = << >>
    /\ cluster = {}
    /\ oresp = "none"
    /\ wpc = "start"
    /\ sieve_id = ""
    /\ dns_n = 0
    /\ dns_result = "none"
    /\ wtrace = << >>
    /\ res = << >>
    /\ wexit = "running"

SpecCoordinator == InitCoordinator /\ [][CoordNext]_vars

(***************************************************************************)
(* instance-service: properties                                            *)
(***************************************************************************)
RecordsOf(id) == {e \in sieve_map : e.key = id}

Range(v) == {v[i] : i \in 1..Len(v)}

IsAscending(v) == \A i \in 1..Len(v), j \in 1..Len(v) : i < j => v[i] < v[j]

AllReturned == \A t \in Threads : pc[t] = "idle"

\* every pc but "idle" lies between try_lock and the drop of the guard
InCriticalSection(t) == pc[t] # "idle"

C2_RegisterAlways201 ==
    \A t \in Threads :
        (req[t].op = "register" /\ pc[t] = "idle") => resp[t] = "201"

\* C3: every result call that has ended without a failed mirror write reported
\* 200, whatever its primes (the empty vector too) and whatever the map held.
C3_ResultAlways200 ==
    \A t \in Threads :
        (req[t].op = "result" /\ pc[t] = "idle" /\ resp[t] # "panic:redis")
            => resp[t] = "200"

\* C4: when the last two calls applied to an id are a register and then a result
\* with primes v (v not empty), the map holds exactly one record for the id and
\* its results are the summary of v: quantity = len(v), max_prime an element of
\* v, the largest when v ascends; <<2,3,5,7>> gives quantity 4 and max_prime 7.
C4_RegisterThenResult ==
    \A id \in Ids :
        (/\ Len(hist[id]) = 2
         /\ hist[id][1].op = "register"
         /\ hist[id][2].op = "result")
        => LET v == hist[id][2].primes
           IN  /\ Cardinality(RecordsOf(id)) = 1
               /\ \A e \in RecordsOf(id) :
                    /\ e.worker.id = id
                    /\ Cardinality(e.worker.results) = 1
                    /\ \A r \in e.worker.results :
                         /\ r.quantity = Len(v)
                         /\ r.max_prime \in Range(v)
                         /\ IsAscending(v) => \A x \in Range(v) : x <= r.max_prime
                         /\ v = <<2, 3, 5, 7>> => (r.quantity = 4 /\ r.max_prime = 7)

\* register(w1) then result(w1, <<2,3,5,7>>) were applied: quantity 4, max_prime 7
C4_Witness ==
    /\ Len(hist["w1"]) = 2
    /\ hist["w1"][1].op = "register"
    /\ hist["w1"][2] = [op |-> "result", primes |-> <<2, 3, 5, 7>>]
    /\ RecordsOf("w1") =
          {[key |-> "w1", worker |-> [id |-> "w1",
               results |-> {[quantity |-> 4, max_prime |-> 7]}]]}

\* C5: a result call that runs its body while the map holds no record for its
\* id leaves exactly one record for the id, completed (results set, quantity =
\* len of its primes), and appends one out-of-order warning; a warning is
\* appended by no other step.
C5_OutOfOrderUpsert ==
    [][/\ \A t \in Threads :
            (/\ pc[t] = "res_locked"
             /\ pc'[t] # "res_locked"
             /\ HashMapGet(sieve_map, req[t].id) = None)
            => /\ Cardinality({e \in sieve_map' : e.key = req[t].id}) = 1
               /\ \A e \in sieve_map' :
                    e.key = req[t].id =>
                        /\ e.worker.results # None
                        /\ \A r \in e.worker.results :
                              r.quantity = Len(req[t].primes)
               /\ log' = Append(log, req[t].id)
       /\ log' # log =>
            \E t \in Threads :
                /\ pc[t] = "res_locked"
                /\ HashMapGet(sieve_map, req[t].id) = None
      ]_vars

\* the largest element of a non-empty sequence
MaxOf(v) == CHOOSE x \in Range(v) : \A y \in Range(v) : y <= x

\* the results stored under an id
ResultsOf(id) == UNION {e.worker.results : e \in RecordsOf(id)}

\* C14: while a result call waits on its mirror write the store lock is not
\* held by it, so that a call for another id can take the lock.
C14_MirrorOutsideLock ==
    \A t \in Threads : pc[t] = "res_stored" => mutex.holder # t

\* C15: the insert of a register call for id, in whatever state of the map,
\* leaves exactly the record [id, results None] under id (a completed result
\* is erased), and leaves the records of the other ids and the mirror as they
\* were.
C15_RegisterOverwrites ==
    [][\A t \in Threads :
          (pc[t] = "reg_locked" /\ pc'[t] = "reg_inserted") =>
             /\ {e \in sieve_map' : e.key = req[t].id} =
                   {[key |-> req[t].id,
                     worker |-> [id |-> req[t].id, results |-> {}]]}
             /\ {e \in sieve_map' : e.key # req[t].id} =
                   {e \in sieve_map : e.key # req[t].id}
             /\ redis' = redis
      ]_vars

\* w1 was completed (its max is in the mirror) and then registered again: the
\* result is gone from the map
C15_Witness ==
    /\ Len(hist["w1"]) = 2
    /\ hist["w1"][1].op = "result"
    /\ hist["w1"][2].op = "register"
    /\ RecordsOf("w1") = {[key |-> "w1", worker |-> [id |-> "w1", results |-> {}]]}
    /\ redis["w1"] # None

\* C16: the summary stored by the last result call applied to an id, with
\* primes v in any order, has quantity = len(v) and max_prime = the largest
\* element of v.
C16_MaxIsLargest ==
    \A id \in Ids :
        (hist[id] # << >> /\ hist[id][Len(hist[id])].op = "result") =>
            LET v == hist[id][Len(hist[id])].primes
            IN  /\ ResultsOf(id) # {}
                /\ \A r \in ResultsOf(id) :
                      r.quantity = Len(v) /\ r.max_prime = MaxOf(v)

\* C17: a result call goes past its mirror write only when the write
\* succeeded, and then the mirror holds, under the call's id, the max_prime of
\* the summary stored for the id (an element of the call's primes); a result
\* call that answered 200 has its id in the mirror; a call whose mirror write
\* failed has ended without a 200.
C17_MirrorFailureFatal ==
    \A t \in Threads :
        /\ pc[t] = "res_mirrored" =>
              /\ redis[req[t].id] # None
              /\ redis[req[t].id] = {r.max_prime : r \in ResultsOf(req[t].id)}
              /\ redis[req[t].id] \subseteq Range(req[t].primes)
        /\ (req[t].op = "result" /\ pc[t] = "idle" /\ resp[t] = "200") =>
              redis[req[t].id] # None
        /\ resp[t] = "panic:redis" => (pc[t] = "idle" /\ mutex.holder # t)

\* one result call wrote <<2,3,5,7>>'s 7 to the mirror and answered 200, and
\* another was aborted by a failed mirror write
C17_Witness ==
    \E t1 \in Threads, t2 \in Threads :
        /\ req[t1] = [op |-> "result", id |-> "w1", primes |-> <<2, 3, 5, 7>>]
        /\ resp[t1] = "200"
        /\ redis["w1"] = {7}
        /\ req[t2].op = "result" /\ req[t2].id = "w2"
        /\ resp[t2] = "panic:redis"
        /\ redis["w2"] = None

\* C18: in every state each key of the map holds exactly one record, whose id
\* field is the key, and no step of any handler (register, result, health)
\* removes a key from the map.
C18_OneRecordPerKeyNoDelete ==
    /\ [](\A e \in sieve_map :
             /\ e.worker.id = e.key
             /\ Cardinality(RecordsOf(e.key)) = 1)
    /\ [][{e.key : e \in sieve_map} \subseteq {e.key : e \in sieve_map'}]_vars

\* w1 was written twice and w2 once, every call has returned, and each id
\* still has its one record
C18_Witness ==
    /\ AllReturned
    /\ Len(hist["w1"]) = 2
    /\ Cardinality(RecordsOf("w1")) = 1
    /\ Cardinality(RecordsOf("w2")) = 1

\* the responses of a call that was aborted with the store lock held
AbortsWithLock == {"panic:empty_primes", "panic:redis"}

\* C22: a result call that aborts while it holds the store lock (empty values,
\* or a failed mirror connection or write) leaves the lock poisoned; from then
\* on the lock stays poisoned, every step is a new call, the map is never
\* changed, a register or result call for any id is aborted at the lock and
\* reports no success, and a health call still answers 200.
C22_PoisonedLockAbortsAll ==
    [][/\ \A t \in Threads :
             (pc[t] \in {"res_locked", "res_stored"} /\ resp'[t] \in AbortsWithLock)
                 => mutex'.poisoned
       /\ mutex.poisoned =>
             /\ mutex' = mutex
             /\ sieve_map' = sieve_map
             /\ pc' = pc
             /\ calls' = calls + 1
             /\ \E t \in Threads :
                   /\ \A u \in Threads \ {t} : req'[u] = req[u] /\ resp'[u] = resp[u]
                   /\ \/ req'[t].op = "health" /\ resp'[t] = "200"
                      \/ /\ req'[t].op \in {"register", "result"}
                         /\ req'[t].id \in Ids
                         /\ resp'[t] = "panic:try_lock"]_vars

\* only one thread has served calls, two of them: its result call poisoned the
\* lock (nothing else can have) and its register call was then aborted at the
\* lock, leaving the map empty
C22_Witness ==
    \E t \in Threads :
        /\ mutex.poisoned
        /\ calls = 2
        /\ \A u \in Threads \ {t} : req[u] = NoReq
        /\ req[t].op = "register"
        /\ resp[t] = "panic:try_lock"
        /\ sieve_map = {}

(***************************************************************************)
(* pod-generator: data                                                     *)
(***************************************************************************)
\* environment variables init_workload unwraps
EnvNames == {"CONTAINER_REGISTRY_BASE_PATH", "INSTANCE_IMAGE", "SIEVE_IMAGE"}

\* values of LINKERD_INJECT: not set, "true", anything else
LinkerdValues == {"unset", "true", "false"}

\* `count` query parameters tried
Counts == -1..MaxCount

\* kube::Error::Api(ae) with ae.code 401, 429, or another status (409 here)
ApiErrors == {"api401", "api429", "api409"}

\* every other variant of kube::Error
OtherErrors == {"transport"}

\* what the API server answers to a create
Outcomes == {"ok"} \cup ApiErrors \cup OtherErrors

Event(kind, n, ev) == [kind |-> kind, n |-> n, ev |-> ev]

Request(kind, n) == [kind |-> kind, n |-> n]

\* a create that is sent and not awaited: the handler goes on at once
AfterSendNoAwait(kind) ==
    CASE kind = "ns" -> "validate"
      [] kind = "dep" -> "svc_create"
      [] kind = "svc" -> "grace"
      [] kind = "pod" -> "pod_create"

\* api.create(..).await: the handler waits for the answer of the create it sent
AfterSend(kind) ==
    CASE kind = "ns" -> "ns_wait"
      [] kind = "dep" -> "dep_wait"
      [] kind = "svc" -> "svc_wait"
      [] kind = "pod" -> "pod_wait"

\* a match that sends the namespace create again when throttled
NamespaceResultRetry429(outcome) ==
    CASE outcome = "ok" -> [opc |-> "validate", oresp |-> "pending"]
      [] outcome = "api429" -> [opc |-> "ns_create", oresp |-> "pending"]
      [] outcome \in ApiErrors \ {"api429"} -> [opc |-> "done", oresp |-> "500"]
      [] OTHER -> [opc |-> "done", oresp |-> "panic:unimplemented"]

\* match ns_api.create(..).await: Ok goes on; Err(Api) logs by code and returns
\* 500; any other Err hits unimplemented!()
NamespaceResult(outcome) ==
    CASE outcome = "ok" -> [opc |-> "validate", oresp |-> "pending"]
      [] outcome \in ApiErrors -> [opc |-> "done", oresp |-> "500"]
      [] OTHER -> [opc |-> "done", oresp |-> "panic:unimplemented"]

\* match pod_api.create(..).await: Ok goes on; Err(Api) returns 500; any other
\* Err is logged and the loop goes on
PodResult(outcome) ==
    CASE outcome \in ApiErrors -> [opc |-> "done", oresp |-> "500"]
      [] OTHER -> [opc |-> "pod_create", oresp |-> "pending"]

(***************************************************************************)
(* pod-generator: init_workload                                            *)
(***************************************************************************)
\* PUT /init?count=c arrives; web::Query<WorkloadConfig> parses count as usize
\* and answers 400 itself when that fails
Receive(c) ==
    /\ opc \in {"idle", "done"}
    /\ count' = c
    /\ podn' = 0
    /\ inflight' = {}
    /\ trace' = << >>
    /\ cluster' = {}
    /\ IF c < 0
         THEN opc' = "done" /\ oresp' = "400"
         ELSE opc' = "start" /\ oresp' = "pending"
    /\ UNCHANGED <<env, linkerd, sieve_map, mutex, redis, pc, req, resp,
                   prime_res, log, hist, calls, workVars>>

\* Client::try_default().await.unwrap(), the namespace name and manifest
ClientInit(ok) ==
    /\ opc = "start"
    /\ IF ok
         THEN opc' = "ns_create" /\ oresp' = oresp
         ELSE opc' = "done" /\ oresp' = "panic:client"
    /\ UNCHANGED <<env, linkerd, count, podn, inflight, trace, cluster,
                   sieve_map, mutex, redis, pc, req, resp, prime_res, log,
                   hist, calls, workVars>>

\* a create request leaves for the API server
Send(kind, n) ==
    /\ inflight' = inflight \cup {Request(kind, n)}
    /\ trace' = Append(trace, Event(kind, n, "send"))
    /\ opc' = AfterSend(kind)

\* its answer arrives
Reply(kind, n, outcome) ==
    /\ Request(kind, n) \in inflight
    /\ inflight' = inflight \ {Request(kind, n)}
    /\ trace' = Append(trace, Event(kind, n, outcome))

NamespaceSend ==
    /\ opc = "ns_create"
    /\ Send("ns", 0)
    /\ UNCHANGED <<env, linkerd, count, podn, cluster, oresp,
                   sieve_map, mutex, redis, pc, req, resp, prime_res, log,
                   hist, calls, workVars>>

NamespaceReply(outcome) ==
    /\ opc = "ns_wait"
    /\ Reply("ns", 0, outcome)
    /\ cluster' = IF outcome = "ok"
                    THEN cluster \cup {[kind |-> "ns", n |-> 0,
                                        inject |-> (linkerd = "true")]}
                    ELSE cluster
    /\ opc' = NamespaceResult(outcome).opc
    /\ oresp' = NamespaceResult(outcome).oresp
    /\ UNCHANGED <<env, linkerd, count, podn,
                   sieve_map, mutex, redis, pc, req, resp, prime_res, log,
                   hist, calls, workVars>>

\* if workload.count <= 0 { return 400 }, then the registry and instance image
\* are read from the environment and unwrapped
Validate ==
    /\ opc = "validate"
    /\ IF count <= 0
         THEN opc' = "done" /\ oresp' = "400"
         ELSE IF {"CONTAINER_REGISTRY_BASE_PATH", "INSTANCE_IMAGE"} \subseteq env
                THEN opc' = "dep_create" /\ oresp' = oresp
                ELSE opc' = "done" /\ oresp' = "panic:env"
    /\ UNCHANGED <<env, linkerd, count, podn, inflight, trace, cluster,
                   sieve_map, mutex, redis, pc, req, resp, prime_res, log,
                   hist, calls, workVars>>

\* deploy_instance_service: the deployment
DeploymentSend ==
    /\ opc = "dep_create"
    /\ Send("dep", 0)
    /\ UNCHANGED <<env, linkerd, count, podn, cluster, oresp,
                   sieve_map, mutex, redis, pc, req, resp, prime_res, log,
                   hist, calls, workVars>>

\* every Err arm only logs
DeploymentReply(outcome) ==
    /\ opc = "dep_wait"
    /\ Reply("dep", 0, outcome)
    /\ cluster' = IF outcome = "ok"
                    THEN cluster \cup {[kind |-> "dep", n |-> 0, inject |-> FALSE]}
                    ELSE cluster
    /\ opc' = "svc_create"
    /\ UNCHANGED <<env, linkerd, count, podn, oresp,
                   sieve_map, mutex, redis, pc, req, resp, prime_res, log,
                   hist, calls, workVars>>

\* deploy_instance_service: the headless service
ServiceSend ==
    /\ opc = "svc_create"
    /\ Send("svc", 0)
    /\ UNCHANGED <<env, linkerd, count, podn, cluster, oresp,
                   sieve_map, mutex, redis, pc, req, resp, prime_res, log,
                   hist, calls, workVars>>

\* every Err arm only logs; deploy_instance_service returns ()
ServiceReply(outcome) ==
    /\ opc = "svc_wait"
    /\ Reply("svc", 0, outcome)
    /\ cluster' = IF outcome = "ok"
                    THEN cluster \cup {[kind |-> "svc", n |-> 0, inject |-> FALSE]}
                    ELSE cluster
    /\ opc' = "grace"
    /\ UNCHANGED <<env, linkerd, count, podn, oresp,
                   sieve_map, mutex, redis, pc, req, resp, prime_res, log,
                   hist, calls, workVars>>

\* the 5 to 7 s sleep, then SIEVE_IMAGE is read and unwrapped
Grace ==
    /\ opc = "grace"
    /\ trace' = Append(trace, Event("grace", 0, "sleep"))
    /\ IF "SIEVE_IMAGE" \in env
         THEN opc' = "pod_create" /\ oresp' = oresp
         ELSE opc' = "done" /\ oresp' = "panic:env"
    /\ podn' = 0
    /\ UNCHANGED <<env, linkerd, count, inflight, cluster,
                   sieve_map, mutex, redis, pc, req, resp, prime_res, log,
                   hist, calls, workVars>>

\* for n in 0..workload.count: the pod of this round
PodSend ==
    /\ opc = "pod_create"
    /\ podn < count
    /\ Send("pod", podn)
    /\ UNCHANGED <<env, linkerd, count, podn, cluster, oresp,
                   sieve_map, mutex, redis, pc, req, resp, prime_res, log,
                   hist, calls, workVars>>

\* a pod loop that, on an API error, deletes what the call has created
PodReplyRollback(outcome) ==
    /\ opc = "pod_wait"
    /\ Reply("pod", podn, outcome)
    /\ cluster' = IF outcome = "ok"
                    THEN cluster \cup {[kind |-> "pod", n |-> podn, inject |-> FALSE]}
                    ELSE IF outcome \in ApiErrors THEN {} ELSE cluster
    /\ opc' = PodResult(outcome).opc
    /\ oresp' = PodResult(outcome).oresp
    /\ podn' = IF PodResult(outcome).opc = "pod_create" THEN podn + 1 ELSE podn
    /\ UNCHANGED <<env, linkerd, count,
                   sieve_map, mutex, redis, pc, req, resp, prime_res, log,
                   hist, calls, workVars>>

\* the match on the pod's create, the 150 ms sleep, the next round
PodReply(outcome) ==
    /\ opc = "pod_wait"
    /\ Reply("pod", podn, outcome)
    /\ cluster' = IF outcome = "ok"
                    THEN cluster \cup {[kind |-> "pod", n |-> podn, inject |-> FALSE]}
                    ELSE cluster
    /\ opc' = PodResult(outcome).opc
    /\ oresp' = PodResult(outcome).oresp
    /\ podn' = IF PodResult(outcome).opc = "pod_create" THEN podn + 1 ELSE podn
    /\ UNCHANGED <<env, linkerd, count,
                   sieve_map, mutex, redis, pc, req, resp, prime_res, log,
                   hist, calls, workVars>>

\* the loop is over: HttpResponse::Ok
Finish ==
    /\ opc = "pod_create"
    /\ podn >= count
    /\ opc' = "done"
    /\ oresp' = "200"
    /\ UNCHANGED <<env, linkerd, count, podn, inflight, trace, cluster,
                   sieve_map, mutex, redis, pc, req, resp, prime_res, log,
                   hist, calls, workVars>>

OrchNext ==
    \/ \E c \in Counts : Receive(c)
    \/ \E ok \in BOOLEAN : ClientInit(ok)
    \/ NamespaceSend
    \/ \E o \in Outcomes : NamespaceReply(o)
    \/ Validate
    \/ DeploymentSend
    \/ \E o \in Outcomes : DeploymentReply(o)
    \/ ServiceSend
    \/ \E o \in Outcomes : ServiceReply(o)
    \/ Grace
    \/ PodSend
    \/ \E o \in Outcomes : PodReply(o)
    \/ Finish

\* the orchestrator process after main() bound its port, under any environment;
\* the coordinator and the worker are not part of this specification and stay
\* as they are
InitOrchestrator ==
    /\ env \in SUBSET EnvNames
    /\ linkerd \in LinkerdValues
    /\ opc = "idle"
    /\ count = 0
    /\ podn = 0
    /\ inflight = {}
    /\ trace = << >>
    /\ cluster = {}
    /\ oresp = "none"
    /\ sieve_map = {}
    /\ mutex = [holder |-> NoThread, poisoned |-> FALSE]
    /\ redis = [i \in Ids |-> None]
    /\ pc = [t \in Threads |-> "idle"]
    /\ req = [t \in Threads |-> NoReq]
    /\ resp = [t \in Threads |-> "none"]
    /\ prime_res = [t \in Threads |-> None]
    /\ log = << >>
    /\ hist = [i \in Ids |-> << >>]
    /\ calls = 0
    /\ wpc = "start"
    /\ sieve_id = ""
    /\ dns_n = 0
    /\ dns_result = "none"
    /\ wtrace = << >>
    /\ res = << >>
    /\ wexit = "running"

SpecOrchestrator == InitOrchestrator /\ [][OrchNext]_vars

(***************************************************************************)
(* pod-generator: properties                                               *)
(***************************************************************************)
\* positions of the call's events of one kind and round with an ev among evs
Events(kind, n, evs) ==
    {i \in 1..Len(trace) :
        trace[i].kind = kind /\ trace[i].n = n /\ trace[i].ev \in evs}

Sends(kind) == {i \in 1..Len(trace) : trace[i].kind = kind /\ trace[i].ev = "send"}

Created(kind) == {r \in cluster : r.kind = kind}

Rounds == 0..(MaxCount + 1)

\* C6: a call with count 0 or -1 sends no create at all (no namespace,
\* deployment, service or pod is created or attempted), and the response it
\* returns is 400.
C6_BadCountNoResources ==
    (opc # "idle" /\ count <= 0) =>
        /\ trace = << >>
        /\ cluster = {}
        /\ oresp \in {"200", "400", "500"} => oresp = "400"

\* C7: a call with count > 0 that answered 200 has created exactly one
\* namespace, one deployment, one service and count pods.
C7_SuccessMeansAllCreated ==
    (opc = "done" /\ oresp = "200" /\ count > 0) =>
        /\ Cardinality(Created("ns")) = 1
        /\ Cardinality(Created("dep")) = 1
        /\ Cardinality(Created("svc")) = 1
        /\ Cardinality(Created("pod")) = count
        /\ Cardinality(Events("ns", 0, {"ok"})) = 1
        /\ Cardinality(Events("dep", 0, {"ok"})) = 1
        /\ Cardinality(Events("svc", 0, {"ok"})) = 1
        /\ \A k \in 0..(count - 1) : Cardinality(Events("pod", k, {"ok"})) = 1

\* C8: within a call the creates are sequential. At most one request is in
\* flight; a request sent is answered before anything else happens; the
\* deployment is sent only after the namespace was created, the service only
\* after the deployment's answer, pod k only after the service's answer, the
\* grace sleep and (k > 0) the answer for pod k-1.
C8_SequentialCreates ==
    /\ Cardinality(inflight) <= 1
    /\ \A i \in 1..Len(trace) :
         /\ (trace[i].ev = "send" /\ i < Len(trace)) =>
               /\ trace[i + 1].kind = trace[i].kind
               /\ trace[i + 1].n = trace[i].n
               /\ trace[i + 1].ev \in Outcomes
         /\ (trace[i].ev = "send" /\ trace[i].kind = "dep") =>
               \E j \in 1..(i - 1) : trace[j] = Event("ns", 0, "ok")
         /\ (trace[i].ev = "send" /\ trace[i].kind = "svc") =>
               \E j \in 1..(i - 1) :
                   trace[j].kind = "dep" /\ trace[j].ev \in Outcomes
         /\ (trace[i].ev = "send" /\ trace[i].kind = "pod") =>
               /\ \E j \in 1..(i - 1) :
                     trace[j].kind = "svc" /\ trace[j].ev \in Outcomes
               /\ \E j \in 1..(i - 1) : trace[j] = Event("grace", 0, "sleep")
               /\ trace[i].n > 0 =>
                     \E j \in 1..(i - 1) :
                         /\ trace[j].kind = "pod"
                         /\ trace[j].n = trace[i].n - 1
                         /\ trace[j].ev \in Outcomes

\* the create of pod 1 is in flight, after everything before it was answered
C8_Witness ==
    /\ inflight = {Request("pod", 1)}
    /\ Len(trace) = 10
    /\ trace[2] = Event("ns", 0, "ok")
    /\ trace[9].kind = "pod" /\ trace[9].n = 0 /\ trace[9].ev \in Outcomes
    /\ trace[10] = Event("pod", 1, "send")

\* C9: when the namespace create was answered 401 or 429 the call has ended
\* with 500, has sent exactly one namespace create and no other create.
C9_NamespaceAuthOrThrottle ==
    (Events("ns", 0, {"api401", "api429"}) # {}) =>
        /\ opc = "done"
        /\ oresp = "500"
        /\ Cardinality(Sends("ns")) = 1
        /\ Sends("dep") = {}
        /\ Sends("svc") = {}
        /\ Sends("pod") = {}
        /\ cluster = {}

\* the namespace create was throttled and the call answered 500
C9_Witness ==
    /\ trace = <<Event("ns", 0, "send"), Event("ns", 0, "api429")>>
    /\ opc = "done"
    /\ oresp = "500"

\* C10: when the create of pod k failed with any error, no create was sent for
\* a later pod and the call, once ended, answered 500 (never 200).
C10_PodFailureAborts ==
    \A k \in Rounds :
        (Events("pod", k, ApiErrors \cup OtherErrors) # {}) =>
            /\ \A i \in Sends("pod") : trace[i].n <= k
            /\ oresp # "200"
            /\ opc = "done" => oresp = "500"


\* the call's events that are an error answer of the API server
Failures == {i \in 1..Len(trace) : trace[i].ev \in ApiErrors \cup OtherErrors}

\* C11: once a create of the call has failed, in whatever state (the
\* deployment and the service included), the call is failed: nothing is sent
\* afterwards, no pod is created afterwards, and it does not answer 200.
C11_FailureGoesToFailed ==
    \A i \in Failures :
        /\ \A j \in (i + 1)..Len(trace) : trace[j].ev # "send"
        /\ \A j \in (i + 1)..Len(trace) : trace[j].kind # "pod"
        /\ opc \notin {"svc_create", "grace", "pod_create"}
        /\ oresp # "200"

\* C12: a call that ended on an error answer of the API server, of whatever
\* kind and at whatever step, ended by returning 200, 400 or 500 (the task
\* that handles it did not panic).
C12_ErrorsNeverCrash ==
    (/\ opc = "done"
     /\ Len(trace) > 0
     /\ trace[Len(trace)].ev \in ApiErrors \cup OtherErrors)
    => oresp \in {"200", "400", "500"}

\* C13: an orchestrator process whose required configuration (registry base
\* path, coordinator and worker image tags) is not complete is stopped at its
\* start: it never gets as far as sending a create, so it creates no cluster
\* resource.
C13_MissingConfigFatalAtStart ==
    ~(EnvNames \subseteq env) =>
        /\ trace = << >>
        /\ cluster = {}

\* C19: nothing the call created is deleted: at every point of the call, and
\* when it has returned (with 200, 400, 500 or a panic), every namespace,
\* deployment, service and pod whose create was answered ok still exists.
C19_NoRollback ==
    \A i \in 1..Len(trace) :
        trace[i].ev = "ok" =>
            \E r \in cluster : r.kind = trace[i].kind /\ r.n = trace[i].n

\* a call that failed at pod 1 returned 500 and left the namespace, the
\* deployment, the service and pod 0 behind
C19_Witness ==
    /\ opc = "done"
    /\ oresp = "500"
    /\ count = 2
    /\ trace[Len(trace)].kind = "pod"
    /\ trace[Len(trace)].n = 1
    /\ trace[Len(trace)].ev \in ApiErrors
    /\ {[kind |-> r.kind, n |-> r.n] : r \in cluster} =
          {Request("ns", 0), Request("dep", 0), Request("svc", 0), Request("pod", 0)}

(***************************************************************************)
(* prime-sieve: data                                                       *)
(***************************************************************************)
\* for n in 1..=4 in query_until_dns_ready
DnsAttempts == 4

\* what resolver.lookup_ip gives: Ok with addresses, Ok with none, Err
DnsOutcomes == {"answer", "empty", "error"}

\* what client.post(..).send().await gives: a response with status 201, a
\* response with another status, or Err (no response)
RegisterOutcomes == {"201", "500", "transport"}

\* what client.put(..).send().await gives
SubmitOutcomes == {"200", "400", "500", "transport"}

\* the limit n of the sieve, scaled down from 100000..=2500000
SieveLimits == {2, 10}

WEvent(op, id, ev) == [op |-> op, id |-> id, ev |-> ev]

\* (limit as f64).sqrt() as usize
ISqrt(n) == CHOOSE r \in 0..n : r * r <= n /\ (r + 1) * (r + 1) > n

\* for i in 2..limit_sqrt: the multiples of a prime i from i * i on are struck
RECURSIVE SieveLoop(_, _, _)
SieveLoop(i, is_prime, limit) ==
    IF i >= ISqrt(limit) + 1
      THEN is_prime
      ELSE SieveLoop(i + 1,
                     IF is_prime[i]
                       THEN [m \in 0..limit |->
                               is_prime[m] /\ ~(m >= i * i /\ (m - i * i) % i = 0)]
                       ELSE is_prime,
                     limit)

\* basic_sieve: the indices left true, in ascending order
BasicSieve(limit) ==
    LET flags == SieveLoop(2, [m \in 0..limit |-> m \notin {0, 1}], limit)
        S == {m \in 0..limit : flags[m]}
    IN  [k \in 1..Cardinality(S) |->
            CHOOSE p \in S : Cardinality({q \in S : q <= p}) = k]

\* RegisterPayload { id: sieve_id.clone() }
RegisterPayload == [id |-> sieve_id]

\* ResultPayload { id: sieve_id.clone(), primes: res }
ResultPayload == [id |-> sieve_id, primes |-> res]

\* a worker that sends its register request again when it was not accepted
AfterRegisterRetry(outcome) ==
    CASE outcome = "transport" -> [wpc |-> "register", wexit |-> "running"]
      [] outcome = "201" -> [wpc |-> "compute", wexit |-> "running"]
      [] OTHER -> [wpc |-> "register", wexit |-> "running"]

\* a worker that logs a register request that got no response and goes on
AfterRegisterIgnoreTransport(outcome) == [wpc |-> "compute", wexit |-> "running"]

\* .send().await? returns from main on Err; any status, 201 or not, goes on
AfterRegister(outcome) ==
    CASE outcome = "transport" -> [wpc |-> "exited", wexit |-> "err"]
      [] OTHER -> [wpc |-> "compute", wexit |-> "running"]

\* .send().await? returns from main on Err; 200 ends the work; any other
\* status has its body read
AfterSubmit(outcome) ==
    CASE outcome = "transport" -> [wpc |-> "exited", wexit |-> "err"]
      [] outcome = "200" -> [wpc |-> "exited", wexit |-> "ok"]
      [] OTHER -> [wpc |-> "read_body", wexit |-> "running"]

(***************************************************************************)
(* prime-sieve: main                                                       *)
(***************************************************************************)
\* the uuid is generated and the register payload built, then the 5 s sleep
WorkerStart(id) ==
    /\ wpc = "start"
    /\ sieve_id' = id
    /\ wpc' = "resolver"
    /\ UNCHANGED <<dns_n, dns_result, wtrace, res, wexit, orchVars,
                   sieve_map, mutex, redis, pc, req, resp, prime_res, log,
                   hist, calls>>

\* AsyncResolver::tokio_from_system_conf().unwrap()
ResolverInit(ok) ==
    /\ wpc = "resolver"
    /\ IF ok
         THEN wpc' = "dns_lookup" /\ wexit' = wexit
         ELSE wpc' = "exited" /\ wexit' = "panic"
    /\ UNCHANGED <<sieve_id, dns_n, dns_result, wtrace, res, orchVars,
                   sieve_map, mutex, redis, pc, req, resp, prime_res, log,
                   hist, calls>>

\* one round of the lookup loop; main logs an Err and goes on
DnsLookup(outcome) ==
    /\ wpc = "dns_lookup"
    /\ dns_n < DnsAttempts
    /\ dns_n' = dns_n + 1
    /\ CASE outcome = "answer" -> dns_result' = "answer" /\ wpc' = "register"
         [] outcome = "error" -> dns_result' = "error" /\ wpc' = "register"
         [] OTHER -> IF dns_n + 1 = DnsAttempts
                       THEN dns_result' = "exhausted" /\ wpc' = "register"
                       ELSE dns_result' = dns_result /\ wpc' = wpc
    /\ UNCHANGED <<sieve_id, wtrace, res, wexit, orchVars,
                   sieve_map, mutex, redis, pc, req, resp, prime_res, log,
                   hist, calls>>

\* the 20 s sleep, then client.post(/register).json(&register).send()
RegisterSend ==
    /\ wpc = "register"
    /\ wtrace' = Append(wtrace, WEvent("register", RegisterPayload.id, "send"))
    /\ wpc' = "register_wait"
    /\ UNCHANGED <<sieve_id, dns_n, dns_result, res, wexit, orchVars,
                   sieve_map, mutex, redis, pc, req, resp, prime_res, log,
                   hist, calls>>

\* .await? and the check of the status
RegisterReply(outcome) ==
    /\ wpc = "register_wait"
    /\ wtrace' = Append(wtrace, WEvent("register", RegisterPayload.id, outcome))
    /\ wpc' = AfterRegister(outcome).wpc
    /\ wexit' = AfterRegister(outcome).wexit
    /\ UNCHANGED <<sieve_id, dns_n, dns_result, res, orchVars,
                   sieve_map, mutex, redis, pc, req, resp, prime_res, log,
                   hist, calls>>

\* basic_sieve(n).await.collect()
Compute(limit) ==
    /\ wpc = "compute"
    /\ res' = BasicSieve(limit)
    /\ wpc' = "submit"
    /\ UNCHANGED <<sieve_id, dns_n, dns_result, wtrace, wexit, orchVars,
                   sieve_map, mutex, redis, pc, req, resp, prime_res, log,
                   hist, calls>>

\* client.put(/result).json(&result_payload).send()
SubmitSend ==
    /\ wpc = "submit"
    /\ wtrace' = Append(wtrace, WEvent("result", ResultPayload.id, "send"))
    /\ wpc' = "submit_wait"
    /\ UNCHANGED <<sieve_id, dns_n, dns_result, res, wexit, orchVars,
                   sieve_map, mutex, redis, pc, req, resp, prime_res, log,
                   hist, calls>>

\* .await? and the check of the status
SubmitReply(outcome) ==
    /\ wpc = "submit_wait"
    /\ wtrace' = Append(wtrace, WEvent("result", ResultPayload.id, outcome))
    /\ wpc' = AfterSubmit(outcome).wpc
    /\ wexit' = AfterSubmit(outcome).wexit
    /\ UNCHANGED <<sieve_id, dns_n, dns_result, res, orchVars,
                   sieve_map, mutex, redis, pc, req, resp, prime_res, log,
                   hist, calls>>

\* prime_res.text().await?, the log line, Ok(())
ReadBody(ok) ==
    /\ wpc = "read_body"
    /\ wpc' = "exited"
    /\ wexit' = IF ok THEN "ok" ELSE "err"
    /\ UNCHANGED <<sieve_id, dns_n, dns_result, wtrace, res, orchVars,
                   sieve_map, mutex, redis, pc, req, resp, prime_res, log,
                   hist, calls>>

WorkerNext ==
    \/ \E id \in Ids : WorkerStart(id)
    \/ \E ok \in BOOLEAN : ResolverInit(ok)
    \/ \E o \in DnsOutcomes : DnsLookup(o)
    \/ RegisterSend
    \/ \E o \in RegisterOutcomes : RegisterReply(o)
    \/ \E l \in SieveLimits : Compute(l)
    \/ SubmitSend
    \/ \E o \in SubmitOutcomes : SubmitReply(o)
    \/ \E ok \in BOOLEAN : ReadBody(ok)

\* a worker process at the first line of main; the coordinator and the
\* orchestrator are not part of this specification and stay as they are
InitWorker ==
    /\ wpc = "start"
    /\ sieve_id = ""
    /\ dns_n = 0
    /\ dns_result = "none"
    /\ wtrace = << >>
    /\ res = << >>
    /\ wexit = "running"
    /\ sieve_map = {}
    /\ mutex = [holder |-> NoThread, poisoned |-> FALSE]
    /\ redis = [i \in Ids |-> None]
    /\ pc = [t \in Threads |-> "idle"]
    /\ req = [t \in Threads |-> NoReq]
    /\ resp = [t \in Threads |-> "none"]
    /\ prime_res = [t \in Threads |-> None]
    /\ log = << >>
    /\ hist = [i \in Ids |-> << >>]
    /\ calls = 0
    /\ env = {}
    /\ linkerd = "unset"
    /\ opc = "idle"
    /\ count = 0
    /\ podn = 0
    /\ inflight = {}
    /\ trace = << >>
    /\ cluster = {}
    /\ oresp = "none"

SpecWorker == InitWorker /\ [][WorkerNext]_vars

(***************************************************************************)
(* prime-sieve: properties                                                 *)
(***************************************************************************)
WSends(op) == {i \in 1..Len(wtrace) : wtrace[i].op = op /\ wtrace[i].ev = "send"}

WReplies(op) == {i \in 1..Len(wtrace) : wtrace[i].op = op /\ wtrace[i].ev # "send"}

\* C20: over its life a worker sends at most one register and at most one
\* result request, whatever their outcomes (a failed one is not sent again);
\* every request carries the id generated at the start; the result request is
\* sent only after the register request has completed.
C20_NoRetry ==
    /\ Cardinality(WSends("register")) <= 1
    /\ Cardinality(WSends("result")) <= 1
    /\ \A i \in 1..Len(wtrace) : wtrace[i].id = sieve_id /\ sieve_id # ""
    /\ \A i \in WSends("result") : \E j \in WReplies("register") : j < i
    /\ \A i \in WReplies("register") : \A j \in WSends("register") : j < i

\* the register request got a 500, the result request failed in transport, and
\* the worker ended: two requests in all, each sent once
C20_Witness ==
    /\ wpc = "exited"
    /\ wexit = "err"
    /\ Len(wtrace) = 4
    /\ wtrace[1] = WEvent("register", sieve_id, "send")
    /\ wtrace[2] = WEvent("register", sieve_id, "500")
    /\ wtrace[3] = WEvent("result", sieve_id, "send")
    /\ wtrace[4] = WEvent("result", sieve_id, "transport")

\* C21: query_until_dns_ready makes at most 4 lookups, and whatever the
\* discovery step comes to, the worker does not end without having sent its
\* register request.
C21_DiscoveryBestEffort ==
    /\ dns_n <= DnsAttempts
    /\ wpc = "exited" => WSends("register") # {}

\* C23: a result request is sent only after the register request got an HTTP
\* response, of any status; a register request that failed in transport is the
\* last thing the worker does: it ends with an error, nothing computed, no
\* result request sent.
C23_SubmitOnlyAfterRegisterResponse ==
    /\ \A i \in WSends("result") :
          \E j \in WReplies("register") : j < i /\ wtrace[j].ev # "transport"
    /\ \A j \in WReplies("register") :
          wtrace[j].ev = "transport" =>
              /\ j = Len(wtrace)
              /\ wpc = "exited"
              /\ wexit = "err"
              /\ res = << >>
              /\ WSends("result") = {}

\* the register request failed in transport and the worker has ended
C23_Witness ==
    /\ wtrace = <<WEvent("register", sieve_id, "send"),
                  WEvent("register", sieve_id, "transport")>>
    /\ wpc = "exited"
    /\ wexit = "err"
    /\ res = << >>

=============================================================================
